---- MODULE Spec2Model ----
(***************************************************************************)
(* SqlClient of atcoder-problems-scraper (src/sql.rs): the three insert    *)
(* operations and the two read operations, each of which opens its own     *)
(* connection, prepares one statement and executes it once per input row.  *)
(* The tables are sets of rows, as the database holds them; the callers    *)
(* issue calls one statement at a time.                                    *)
(***************************************************************************)
EXTENDS Integers, Sequences, FiniteSets, TLC

\* Longest batch (slice of rows) a caller passes to one insert call.
MaxBatch == 2

\* Longest batch of the second of two concurrent callers.
MaxRival == 1

\* The callers that share one SqlClient (&self).
Procs == {"w1", "w2"}

\* Option<i32>: None is the empty sequence, Some(t) is <<t>>.
None == <<>>
Some(t) == <<t>>

----------------------------------------------------------------------------
(* The records of the crate (Submission, Contest, Problem) and the rows    *)
(* the callers draw their batches from.                                    *)

Submission(id, user, v) ==
    [id             |-> id,
     epoch_second   |-> v,
     problem_id     |-> IF v = 0 THEN "" ELSE "arc001_a",
     contest_id     |-> IF v = 0 THEN "" ELSE "arc001",
     user_id        |-> user,
     language       |-> IF v = 0 THEN "" ELSE "Rust",
     point          |-> 100 * v,
     length         |-> 10 * v,
     result         |-> IF v = 0 THEN "" ELSE "AC",
     execution_time |-> IF v = 0 THEN None ELSE Some(5)]

Contest(id, start, title, rate) ==
    [id                 |-> id,
     start_epoch_second |-> start,
     duration_second    |-> 6000 * start,
     title              |-> title,
     rate_change        |-> rate]

Problem(id, contest, title) ==
    [id |-> id, contest_id |-> contest, title |-> title]

SubmissionRows ==
    {Submission(1, "", 0), Submission(2, "", 0), Submission(1, "kenkoooo", 1)}

ContestRows ==
    {Contest("arc001", 0, "Contest 1", "-"),
     Contest("arc002", 0, "Contest 2", "-"),
     Contest("arc001", 1, "Contest X", "All")}

ProblemRows ==
    {Problem("arc001_a", "arc001", "Problem 1"),
     Problem("arc001_b", "arc001", "Problem 2"),
     Problem("arc001_a", "arc999", "Problem X")}

InsertOps == {"insert_submissions", "insert_contests", "insert_problems"}
GetOps == {"get_problems", "get_contests"}
Ops == InsertOps \cup GetOps

RowsOf(o) ==
    CASE o = "insert_submissions" -> SubmissionRows
      [] o = "insert_contests"    -> ContestRows
      [] o = "insert_problems"    -> ProblemRows
      [] OTHER                    -> {}

\* The slices a caller may pass to operation o (a read takes no rows).
Batches(o) == UNION {[1..n -> RowsOf(o)] : n \in 0..MaxBatch}

\* The work a run of the scraper does: it crawls one kind of record, and calls
\* the operations of that record's table.
Jobs == {"submissions", "contests", "problems"}

OpsOf(j) ==
    CASE j = "submissions" -> {"insert_submissions"}
      [] j = "contests"    -> {"insert_contests", "get_contests"}
      [] j = "problems"    -> {"insert_problems", "get_problems"}

\* What the database may hold when a run starts: nothing (a fresh schema), or
\* the rows an earlier run left.
SeedSubmissions == {Submission(1, "", 0)}
SeedContests == {Contest("arc001", 0, "Contest 1", "-")}
SeedProblems == {Problem("arc001_a", "arc001", "Problem 1")}

----------------------------------------------------------------------------
VARIABLES
    submissions,   \* table submissions: a set of rows
    contests,      \* table contests
    problems,      \* table problems
    pc,            \* pc[p]: "idle" | "connected" | "prepared"
    op,            \* op[p]: the operation p is in (or was last in)
    rows,          \* rows[p]: the slice passed to the insert call
    res,           \* res[p]: the Vec<u64> collected so far (one per executed row)
    got,           \* got[p]: the Vec<Problem> / Vec<Contest> a read returned
    ret,           \* ret[p]: "none" | "ok" | "err_connect" | "err_prepare"
                   \*         | "err_execute" | "err_query"
    conn,          \* conn[p]: connections p holds open
    job,           \* the kind of record this run crawls
    pre,           \* history: the tables when p's current call began
    orig,          \* history: the tables when p first made this same call
    mode,          \* history: "first" | "retry" (same call again after an error)
                   \*          | "repeat" (same call again after a success)
    first,         \* history: per table, id -> the first row applied with that id
    written,       \* history: per table, every row a statement was executed for
    log,           \* history: log[p] is the rows p's current call has executed
                   \*          a statement for, in the order of execution
    ran            \* history: per table, id -> the rows of the first and of the
                   \*          last statement executed for that id in this run

vars == <<submissions, contests, problems, pc, op, rows, res, got, ret, conn,
          job, pre, orig, mode, first, written, log, ran>>

tables == <<submissions, contests, problems>>

Db == [submissions |-> submissions, contests |-> contests, problems |-> problems]

\* The function id -> row of a table that holds one row per id.
ById(table) == [i \in {r.id : r \in table} |-> CHOOSE r \in table : r.id = i]

Init ==
    /\ \E seeded \in BOOLEAN :
          /\ submissions = IF seeded THEN SeedSubmissions ELSE {}
          /\ contests = IF seeded THEN SeedContests ELSE {}
          /\ problems = IF seeded THEN SeedProblems ELSE {}
    /\ job \in Jobs
    /\ pc = [p \in Procs |-> "idle"]
    /\ op = [p \in Procs |-> "get_contests"]
    /\ rows = [p \in Procs |-> <<>>]
    /\ res = [p \in Procs |-> <<>>]
    /\ got = [p \in Procs |-> <<>>]
    /\ ret = [p \in Procs |-> "none"]
    /\ conn = [p \in Procs |-> 0]
    /\ pre = [p \in Procs |-> Db]
    /\ orig = [p \in Procs |-> Db]
    /\ mode = [p \in Procs |-> "first"]
    /\ first = [submissions |-> ById(submissions),
                contests    |-> ById(contests),
                problems    |-> ById(problems)]
    /\ written = [contests |-> contests, problems |-> problems]
    /\ log = [p \in Procs |-> <<>>]
    /\ ran = [submissions |-> ById({}), contests |-> ById({}),
              problems |-> ById({})]

----------------------------------------------------------------------------
(* The statements, as the database executes them for one row.              *)

HasId(table, id) == \E r \in table : r.id = id

\* Variant: ON CONFLICT (id) DO UPDATE SET every column (the row is replaced).
UpsertSubmissionReplace(table, s) ==
    {r \in table : r.id # s.id} \cup {s}

\* Variant: ON CONFLICT (id) DO NOTHING, as for the other two tables.
UpsertSubmissionIgnore(table, s) ==
    IF HasId(table, s.id) THEN table ELSE table \cup {s}

\* INSERT INTO submissions (...) VALUES ($1, ..., $10)
\* ON CONFLICT (id) DO UPDATE SET user_id = $5
UpsertSubmission(table, s) ==
    IF HasId(table, s.id)
    THEN {IF r.id = s.id THEN [r EXCEPT !.user_id = s.user_id] ELSE r : r \in table}
    ELSE table \cup {[id             |-> s.id,
                      epoch_second   |-> s.epoch_second,
                      problem_id     |-> s.problem_id,
                      contest_id     |-> s.contest_id,
                      user_id        |-> s.user_id,
                      language       |-> s.language,
                      point          |-> s.point,
                      length         |-> s.length,
                      result         |-> s.result,
                      execution_time |-> s.execution_time]}

\* Variant: the table is emptied before the row is inserted (a refresh).
InsertContestRefresh(table, c) ==
    {c}

\* Variant: ON CONFLICT (id) DO UPDATE SET every column (last write wins).
InsertContestReplace(table, c) ==
    {r \in table : r.id # c.id} \cup {c}

\* Variant: ON CONFLICT (id) DO UPDATE SET
\* duration_second = contests.duration_second + EXCLUDED.duration_second.
InsertContestAccumulate(table, c) ==
    IF HasId(table, c.id)
    THEN {IF r.id = c.id
          THEN [r EXCEPT !.duration_second = @ + c.duration_second]
          ELSE r : r \in table}
    ELSE table \cup {c}

\* INSERT INTO contests (...) VALUES ($1, ..., $5) ON CONFLICT (id) DO NOTHING
InsertContest(table, c) ==
    IF HasId(table, c.id)
    THEN table
    ELSE table \cup {[id                 |-> c.id,
                      start_epoch_second |-> c.start_epoch_second,
                      duration_second    |-> c.duration_second,
                      title              |-> c.title,
                      rate_change        |-> c.rate_change]}

\* Variant: a plain INSERT into a table without the key on id.
InsertProblemNoKey(table, q) ==
    table \cup {q}

\* INSERT INTO problems (...) VALUES ($1, $2, $3) ON CONFLICT (id) DO NOTHING
InsertProblem(table, q) ==
    IF HasId(table, q.id)
    THEN table
    ELSE table \cup {[id |-> q.id, contest_id |-> q.contest_id, title |-> q.title]}

\* Variant: every statement is counted as one row, ignored or not.
InsertAffectedOne(table, r) == 1

\* The u64 execute() returns: the number of rows the statement affected.
UpsertAffected(table, s) == 1
InsertAffected(table, r) == IF HasId(table, r.id) THEN 0 ELSE 1

\* A row of the result set mapped into a record, column by column.
RowToProblem(row) ==
    [id |-> row.id, contest_id |-> row.contest_id, title |-> row.title]

\* Variant: title read from the wrong column.
RowToContestWrongColumn(row) ==
    [id                 |-> row.id,
     start_epoch_second |-> row.start_epoch_second,
     duration_second    |-> row.duration_second,
     title              |-> row.rate_change,
     rate_change        |-> row.rate_change]

RowToContest(row) ==
    [id                 |-> row.id,
     start_epoch_second |-> row.start_epoch_second,
     duration_second    |-> row.duration_second,
     title              |-> row.title,
     rate_change        |-> row.rate_change]

\* Variant: the scan stops after the first row (a LIMIT 1 in the query).
ScansLimitOne(table) ==
    IF table = {} THEN {<<>>} ELSE {<<r>> : r \in table}

\* The orders in which a scan may return the rows of a table.
Scans(table) ==
    {f \in [1..Cardinality(table) -> table] :
        \A i, j \in 1..Cardinality(table) : i # j => f[i] # f[j]}

----------------------------------------------------------------------------
(* A batch applied in full: the iteration of an insert call in which every *)
(* execute() succeeds.                                                     *)

RECURSIVE ApplySubmissions(_, _)
ApplySubmissions(table, batch) ==
    IF batch = <<>> THEN table
    ELSE ApplySubmissions(UpsertSubmission(table, Head(batch)), Tail(batch))

RECURSIVE ApplyContests(_, _)
ApplyContests(table, batch) ==
    IF batch = <<>> THEN table
    ELSE ApplyContests(InsertContest(table, Head(batch)), Tail(batch))

RECURSIVE ApplyProblems(_, _)
ApplyProblems(table, batch) ==
    IF batch = <<>> THEN table
    ELSE ApplyProblems(InsertProblem(table, Head(batch)), Tail(batch))

\* The rows of p's slice whose statement has been executed.
Executed(p) == SubSeq(rows[p], 1, Len(res[p]))

Ids(table) == {r.id : r \in table}

\* The tables db with batch applied in full by insert operation o.
ApplyBatch(o, db, batch) ==
    CASE o = "insert_submissions" ->
             [db EXCEPT !.submissions = ApplySubmissions(@, batch)]
      [] o = "insert_contests" ->
             [db EXCEPT !.contests = ApplyContests(@, batch)]
      [] o = "insert_problems" ->
             [db EXCEPT !.problems = ApplyProblems(@, batch)]

----------------------------------------------------------------------------
(* History bookkeeping for the insert-or-ignore tables.                    *)

NoteWritten(t, row) ==
    /\ written' = [written EXCEPT ![t] = @ \cup {row}]
    /\ first' = [first EXCEPT ![t] =
                    IF row.id \in DOMAIN @ THEN @ ELSE @ @@ (row.id :> row)]

\* Caller p has executed the statement of table t for row.
NoteExecuted(p, t, row) ==
    /\ log' = [log EXCEPT ![p] = Append(@, row)]
    /\ ran' = [ran EXCEPT ![t] =
                  IF row.id \in DOMAIN @
                  THEN [@ EXCEPT ![row.id].last = row]
                  ELSE @ @@ (row.id :> [first |-> row, last |-> row])]

----------------------------------------------------------------------------
(* The steps of a call.                                                    *)

\* Variant: the connection outlives the call (kept, not dropped).
ReturnLeak(p, outcome) ==
    /\ pc' = [pc EXCEPT ![p] = "idle"]
    /\ ret' = [ret EXCEPT ![p] = outcome]
    /\ UNCHANGED conn

\* What leaving the function does: the local `conn` (and the statement that
\* borrows it) is dropped, which closes the connection.
Return(p, outcome) ==
    /\ pc' = [pc EXCEPT ![p] = "idle"]
    /\ ret' = [ret EXCEPT ![p] = outcome]
    /\ conn' = [conn EXCEPT ![p] = @ - 1]

\* A caller enters operation o with slice b; `again` marks the call as the
\* caller's repetition of its previous call (same operation, same slice).
Enter(p, o, b, again) ==
    /\ pc[p] = "idle"
    /\ o \in OpsOf(job)
    /\ b \in Batches(o)
    /\ again => /\ ret[p] # "none"
                /\ o \in InsertOps
                /\ o = op[p]
                /\ b = rows[p]
    /\ op' = [op EXCEPT ![p] = o]
    /\ rows' = [rows EXCEPT ![p] = b]
    /\ res' = [res EXCEPT ![p] = <<>>]
    /\ got' = [got EXCEPT ![p] = <<>>]
    /\ pre' = [pre EXCEPT ![p] = Db]
    /\ orig' = [orig EXCEPT ![p] = IF again THEN @ ELSE Db]
    /\ mode' = [mode EXCEPT ![p] =
                   IF ~again THEN "first"
                   ELSE IF ret[p] = "ok" THEN "repeat" ELSE "retry"]
    /\ log' = [log EXCEPT ![p] = <<>>]
    /\ UNCHANGED <<tables, job, first, written, ran>>

\* let conn = self.connect()?;  -- the connection is established
Connect(p) ==
    /\ \E o \in OpsOf(job), again \in BOOLEAN : \E b \in Batches(o) :
          Enter(p, o, b, again)
    /\ pc' = [pc EXCEPT ![p] = "connected"]
    /\ ret' = [ret EXCEPT ![p] = "none"]
    /\ conn' = [conn EXCEPT ![p] = @ + 1]

\* let conn = self.connect()?;  -- Connection::connect fails, `?` returns Err
ConnectFail(p) ==
    /\ \E o \in OpsOf(job), again \in BOOLEAN : \E b \in Batches(o) :
          Enter(p, o, b, again)
    /\ pc' = [pc EXCEPT ![p] = "idle"]
    /\ ret' = [ret EXCEPT ![p] = "err_connect"]
    /\ UNCHANGED conn

\* Variant: the slice is walked from its end (iter().rev()).
NextRowReversed(p) == rows[p][Len(rows[p]) - Len(res[p])]

\* The row the iterator hands to the closure next.
HasNext(p) == Len(res[p]) < Len(rows[p])
NextRow(p) == rows[p][Len(res[p]) + 1]

\* let statement = conn.prepare(query)...?;
Prepare(p) ==
    /\ pc[p] = "connected"
    /\ op[p] \in InsertOps
    /\ pc' = [pc EXCEPT ![p] = "prepared"]
    /\ UNCHANGED <<tables, op, rows, res, got, ret, conn, job, pre, orig,
                   mode, first, written, log, ran>>

\* Variant: the statement is prepared anew for every row, so that preparing
\* can fail after earlier rows were executed.
PrepareFailPerRow(p) ==
    /\ pc[p] = "connected" \/ (pc[p] = "prepared" /\ HasNext(p))
    /\ op[p] \in InsertOps
    /\ Return(p, "err_prepare")
    /\ UNCHANGED <<tables, op, rows, res, got, job, pre, orig, mode, first,
                   written, log, ran>>

PrepareFail(p) ==
    /\ pc[p] = "connected"
    /\ op[p] \in InsertOps
    /\ Return(p, "err_prepare")
    /\ UNCHANGED <<tables, op, rows, res, got, job, pre, orig, mode, first,
                   written, log, ran>>

\* statement.execute(&[&submission.id, ...]) succeeds for the next row
ExecuteSubmission(p) ==
    /\ pc[p] = "prepared"
    /\ op[p] = "insert_submissions"
    /\ HasNext(p)
    /\ submissions' = UpsertSubmission(submissions, NextRow(p))
    /\ res' = [res EXCEPT ![p] = Append(@, UpsertAffected(submissions, NextRow(p)))]
    /\ first' = [first EXCEPT !.submissions =
                    IF NextRow(p).id \in DOMAIN @ THEN @
                    ELSE @ @@ (NextRow(p).id :> NextRow(p))]
    /\ NoteExecuted(p, "submissions", NextRow(p))
    /\ UNCHANGED <<contests, problems, pc, op, rows, got, ret, conn, job, pre,
                   orig, mode, written>>

ExecuteContest(p) ==
    /\ pc[p] = "prepared"
    /\ op[p] = "insert_contests"
    /\ HasNext(p)
    /\ contests' = InsertContest(contests, NextRow(p))
    /\ res' = [res EXCEPT ![p] = Append(@, InsertAffected(contests, NextRow(p)))]
    /\ NoteWritten("contests", NextRow(p))
    /\ NoteExecuted(p, "contests", NextRow(p))
    /\ UNCHANGED <<submissions, problems, pc, op, rows, got, ret, conn, job,
                   pre, orig, mode>>

\* Variant: problems.contest_id REFERENCES contests (id), so that the
\* statement succeeds only for a stored contest.
ExecuteProblemChecked(p) ==
    /\ pc[p] = "prepared"
    /\ op[p] = "insert_problems"
    /\ HasNext(p)
    /\ HasId(contests, NextRow(p).contest_id)
    /\ problems' = InsertProblem(problems, NextRow(p))
    /\ res' = [res EXCEPT ![p] = Append(@, InsertAffected(problems, NextRow(p)))]
    /\ NoteWritten("problems", NextRow(p))
    /\ NoteExecuted(p, "problems", NextRow(p))
    /\ UNCHANGED <<submissions, contests, pc, op, rows, got, ret, conn, job,
                   pre, orig, mode>>

ExecuteProblem(p) ==
    /\ pc[p] = "prepared"
    /\ op[p] = "insert_problems"
    /\ HasNext(p)
    /\ problems' = InsertProblem(problems, NextRow(p))
    /\ res' = [res EXCEPT ![p] = Append(@, InsertAffected(problems, NextRow(p)))]
    /\ NoteWritten("problems", NextRow(p))
    /\ NoteExecuted(p, "problems", NextRow(p))
    /\ UNCHANGED <<submissions, contests, pc, op, rows, got, ret, conn, job,
                   pre, orig, mode>>

\* Variant: the batch runs in a transaction, a failing row rolls it back.
ExecuteFailRollback(p) ==
    /\ pc[p] = "prepared"
    /\ HasNext(p)
    /\ Return(p, "err_execute")
    /\ submissions' = pre[p].submissions
    /\ contests' = pre[p].contests
    /\ problems' = pre[p].problems
    /\ UNCHANGED <<op, rows, res, got, job, pre, orig, mode, first, written, log, ran>>

\* Variant: the error of a failing row is kept and the rows after it are
\* still executed before the call returns the error.
ExecuteFailContinue(p) ==
    /\ pc[p] = "prepared"
    /\ HasNext(p)
    /\ Return(p, "err_execute")
    /\ LET rest == SubSeq(rows[p], Len(res[p]) + 2, Len(rows[p])) IN
          /\ submissions' = IF op[p] = "insert_submissions"
                             THEN ApplySubmissions(submissions, rest)
                             ELSE submissions
          /\ contests' = IF op[p] = "insert_contests"
                          THEN ApplyContests(contests, rest)
                          ELSE contests
          /\ problems' = IF op[p] = "insert_problems"
                          THEN ApplyProblems(problems, rest)
                          ELSE problems
    /\ UNCHANGED <<op, rows, res, got, job, pre, orig, mode, first, written, log, ran>>

\* execute() fails for the next row: collect() stops at the first Err, the
\* rows after it are never handed to the closure.
ExecuteFail(p) ==
    /\ pc[p] = "prepared"
    /\ HasNext(p)
    /\ Return(p, "err_execute")
    /\ UNCHANGED <<tables, op, rows, res, got, job, pre, orig, mode, first,
                   written, log, ran>>

\* Variant: an empty result is taken for a failure.
CollectNonEmpty(p) ==
    /\ pc[p] = "prepared"
    /\ ~HasNext(p)
    /\ Return(p, IF res[p] = <<>> THEN "err_execute" ELSE "ok")
    /\ UNCHANGED <<tables, op, rows, res, got, job, pre, orig, mode, first,
                   written, log, ran>>

\* The iterator is exhausted: collect() yields Ok(Vec<u64>).
Collect(p) ==
    /\ pc[p] = "prepared"
    /\ ~HasNext(p)
    /\ Return(p, "ok")
    /\ UNCHANGED <<tables, op, rows, res, got, job, pre, orig, mode, first,
                   written, log, ran>>

\* conn.query("SELECT id, contest_id, title FROM problems", &[]) and the
\* mapping of its rows
GetProblems(p) ==
    /\ pc[p] = "connected"
    /\ op[p] = "get_problems"
    /\ \E scan \in Scans(problems) :
          got' = [got EXCEPT ![p] = [i \in DOMAIN scan |-> RowToProblem(scan[i])]]
    /\ Return(p, "ok")
    /\ UNCHANGED <<tables, op, rows, res, job, pre, orig, mode, first, written, log, ran>>

GetContests(p) ==
    /\ pc[p] = "connected"
    /\ op[p] = "get_contests"
    /\ \E scan \in Scans(contests) :
          got' = [got EXCEPT ![p] = [i \in DOMAIN scan |-> RowToContest(scan[i])]]
    /\ Return(p, "ok")
    /\ UNCHANGED <<tables, op, rows, res, job, pre, orig, mode, first, written, log, ran>>

\* conn.query(...) fails: `?` returns Err
QueryFail(p) ==
    /\ pc[p] = "connected"
    /\ op[p] \in GetOps
    /\ Return(p, "err_query")
    /\ UNCHANGED <<tables, op, rows, res, got, job, pre, orig, mode, first,
                   written, log, ran>>

\* The steps of a call that has connected.
Proceed(p) ==
    \/ Prepare(p)
    \/ PrepareFail(p)
    \/ ExecuteSubmission(p)
    \/ ExecuteContest(p)
    \/ ExecuteProblem(p)
    \/ ExecuteFail(p)
    \/ Collect(p)
    \/ GetProblems(p)
    \/ GetContests(p)
    \/ QueryFail(p)

Step(p) ==
    \/ Connect(p)
    \/ ConnectFail(p)
    \/ Proceed(p)

\* One caller: the calls follow one another (synchronous, blocking calls).
Next == Step("w1")

Spec == Init /\ [][Next]_vars

\* Two callers at once, each making one call: a call is a sequence of
\* statements on its own connection, and the statements of the two calls
\* interleave in any order (the layer takes no lock). The second caller's
\* slice has at most MaxRival rows.
NoCallYet(p) == pc[p] = "idle" /\ ret[p] = "none"

RivalBound(p) == p = "w2" => Len(rows'[p]) <= MaxRival

ConnectOnce(p) == NoCallYet(p) /\ Connect(p) /\ RivalBound(p)

ConnectFailOnce(p) == NoCallYet(p) /\ ConnectFail(p) /\ RivalBound(p)

NextConc ==
    \E p \in Procs :
        \/ ConnectOnce(p)
        \/ ConnectFailOnce(p)
        \/ Proceed(p)

SpecConc == Init /\ [][NextConc]_vars

----------------------------------------------------------------------------
(* Properties.                                                             *)

\* The columns of a submission other than user_id.
Immutable(r) ==
    <<r.epoch_second, r.problem_id, r.contest_id, r.language, r.point,
      r.length, r.result, r.execution_time>>

\* The user_id of the last row of seq that carries id i, else dflt.
RECURSIVE LastUser(_, _, _)
LastUser(seq, i, dflt) ==
    IF seq = <<>> THEN dflt
    ELSE LastUser(Tail(seq), i, IF Head(seq).id = i THEN Head(seq).user_id ELSE dflt)

\* C1: a submission stored when an insert_submissions call began keeps every
\* column but user_id whatever the rows applied over it carry, and its user_id
\* is that of the last row applied with its id (its own if there was none).
C1_UpsertMerge ==
    \A p \in Procs :
        op[p] = "insert_submissions" =>
            \A r0 \in pre[p].submissions :
                \E r \in submissions :
                    /\ r.id = r0.id
                    /\ Immutable(r) = Immutable(r0)
                    /\ r.user_id = LastUser(Executed(p), r0.id, r0.user_id)

\* A row was applied over a stored submission with another user_id and other
\* values in the remaining columns.
C1_Witness ==
    \E p \in Procs :
        /\ op[p] = "insert_submissions"
        /\ Len(res[p]) = 1
        /\ \E r0 \in pre[p].submissions :
              /\ rows[p][1].id = r0.id
              /\ rows[p][1].user_id # r0.user_id
              /\ Immutable(rows[p][1]) # Immutable(r0)
              /\ \E r \in submissions :
                    r.id = r0.id /\ r.user_id = rows[p][1].user_id

\* C2: the record stored for an id of contests or problems is, in all fields,
\* the first row ever applied with that id, and every id applied is stored.
C2_FirstWriteWins ==
    /\ Ids(contests) = DOMAIN first.contests
    /\ \A r \in contests : r = first.contests[r.id]
    /\ Ids(problems) = DOMAIN first.problems
    /\ \A r \in problems : r = first.problems[r.id]

\* A later row with a stored id and other field values has been applied (to
\* contests or to problems, whichever the run crawls).
C2_Witness ==
    \/ \E w \in written.contests :
          w # first.contests[w.id] /\ first.contests[w.id] \in contests
    \/ \E w \in written.problems :
          w # first.problems[w.id] /\ first.problems[w.id] \in problems

\* C3 as stated: after insert_submissions fails at row k, the ids of rows
\* 1..k-1 are stored and the ids of rows k..N are not.
C3_Original ==
    \A p \in Procs :
        (op[p] = "insert_submissions" /\ ret[p] = "err_execute") =>
            /\ \A j \in 1..Len(res[p]) : HasId(submissions, rows[p][j].id)
            /\ \A j \in (Len(res[p]) + 1)..Len(rows[p]) :
                  ~HasId(submissions, rows[p][j].id)

\* C3: after insert_submissions fails at row k, the table is the table of
\* before the call with rows 1..k-1 applied and no other row: the ids of rows
\* 1..k-1 are stored, and the id of a row k..N is stored exactly when it was
\* stored before the call or is the id of one of rows 1..k-1; the other
\* tables are as before the call.
C3_PartialBatch ==
    \A p \in Procs :
        (op[p] = "insert_submissions" /\ ret[p] = "err_execute") =>
            /\ submissions = ApplySubmissions(pre[p].submissions, Executed(p))
            /\ contests = pre[p].contests
            /\ problems = pre[p].problems
            /\ \A j \in 1..Len(res[p]) : HasId(submissions, rows[p][j].id)
            /\ \A j \in (Len(res[p]) + 1)..Len(rows[p]) :
                  HasId(submissions, rows[p][j].id) <=>
                      \/ HasId(pre[p].submissions, rows[p][j].id)
                      \/ \E i \in 1..Len(res[p]) : rows[p][i].id = rows[p][j].id

\* insert_submissions failed at row 2 of 2: row 1 was new and is stored, row 2
\* carries an id that is not stored.
C3_Witness ==
    \E p \in Procs :
        /\ op[p] = "insert_submissions"
        /\ ret[p] = "err_execute"
        /\ Len(rows[p]) = 2
        /\ Len(res[p]) = 1
        /\ ~HasId(pre[p].submissions, rows[p][1].id)
        /\ HasId(submissions, rows[p][1].id)
        /\ ~HasId(submissions, rows[p][2].id)


\* C4: insert_contests (insert_problems) called again with the same batch
\* right after it succeeded leaves contests and problems exactly as the first
\* application left them: the same rows, so the same count and field values.
C4_Idempotent ==
    \A p \in Procs :
        (/\ op[p] \in {"insert_contests", "insert_problems"}
         /\ mode[p] = "repeat"
         /\ ret[p] = "ok") =>
            /\ contests = pre[p].contests
            /\ problems = pre[p].problems
            /\ submissions = pre[p].submissions

\* A batch of two rows with the same id and different values was applied
\* twice in succession, the first application having changed the table.
C4_Witness ==
    \E p \in Procs :
        /\ op[p] \in {"insert_contests", "insert_problems"}
        /\ mode[p] = "repeat"
        /\ ret[p] = "ok"
        /\ Len(rows[p]) = 2
        /\ rows[p][1].id = rows[p][2].id
        /\ rows[p][1] # rows[p][2]
        /\ orig[p] # pre[p]

Range(seq) == {seq[i] : i \in DOMAIN seq}

\* C5 as stated: get_contests (get_problems) returns the set of the records
\* written via insert_contests (insert_problems).
C5_Original ==
    \A p \in Procs :
        /\ (op[p] = "get_contests" /\ ret[p] = "ok") =>
              Range(got[p]) = written.contests
        /\ (op[p] = "get_problems" /\ ret[p] = "ok") =>
              Range(got[p]) = written.problems

\* C5: get_contests (get_problems) returns one record per id written, equal
\* in all fields to the first record written with that id.
C5_RoundTrip ==
    \A p \in Procs :
        /\ (op[p] = "get_contests" /\ ret[p] = "ok") =>
              /\ Range(got[p]) =
                    {first.contests[i] : i \in Ids(written.contests)}
              /\ Len(got[p]) = Cardinality(Ids(written.contests))
        /\ (op[p] = "get_problems" /\ ret[p] = "ok") =>
              /\ Range(got[p]) =
                    {first.problems[i] : i \in Ids(written.problems)}
              /\ Len(got[p]) = Cardinality(Ids(written.problems))

\* A read returned two records after three were written, two of them with
\* the same id.
C5_Witness ==
    \E p \in Procs :
        /\ op[p] \in GetOps
        /\ ret[p] = "ok"
        /\ Len(got[p]) = 2
        /\ Cardinality(written[job]) = 3

\* C6: when an insert call succeeds, be it the first attempt or a re-run of
\* the same batch after attempts that failed part-way, the tables are those
\* of before the first attempt with the whole batch applied once.
C6_RetrySafe ==
    \A p \in Procs :
        (op[p] \in InsertOps /\ ret[p] = "ok") =>
            Db = ApplyBatch(op[p], orig[p], rows[p])

\* A re-run succeeded after an attempt that had failed at row 2, its row 1
\* committed.
C6_Witness ==
    \E p \in Procs :
        /\ op[p] \in InsertOps
        /\ mode[p] = "retry"
        /\ ret[p] = "ok"
        /\ Len(rows[p]) = 2
        /\ pre[p] # orig[p]
        /\ pre[p] # Db

\* C7: an insert call that fails to connect or to prepare its statement has
\* executed no row statement and leaves the three tables as they were.
C7_EarlyFailure ==
    \A p \in Procs :
        (op[p] \in InsertOps /\ ret[p] \in {"err_connect", "err_prepare"}) =>
            /\ res[p] = <<>>
            /\ Db = pre[p]

\* An insert call with two rows failed at prepare on a table that holds rows.
C7_Witness ==
    \E p \in Procs :
        /\ op[p] \in InsertOps
        /\ ret[p] = "err_prepare"
        /\ Len(rows[p]) = 2
        /\ Db[job] # {}

\* C8: a caller holds no connection outside a call (none after construction,
\* none after any return) and exactly one, its own, inside a call.
C8_ConnectionLifecycle ==
    \A p \in Procs : conn[p] = IF pc[p] = "idle" THEN 0 ELSE 1

\* A call returned after a row failed mid-batch, and holds no connection.
C8_Witness ==
    \E p \in Procs :
        /\ pc[p] = "idle"
        /\ ret[p] = "err_execute"
        /\ Len(res[p]) = 1
        /\ conn[p] = 0

Unique(table) == \A r1, r2 \in table : r1.id = r2.id => r1 = r2

\* C9: every table holds at most one row per id, and the rows an insert call
\* has executed raised the row count of its table by one for each id that was
\* not stored and by nothing for an id that was.
C9_KeysAndCount ==
    /\ Unique(submissions)
    /\ Unique(contests)
    /\ Unique(problems)
    /\ \A p \in Procs :
          op[p] \in InsertOps =>
              Cardinality(Db[job]) =
                  Cardinality(pre[p][job])
                  + Cardinality(Ids(Range(Executed(p))) \ Ids(pre[p][job]))

\* A call executed a row with a new id and then a row with that same id: the
\* count rose by one.
C9_Witness ==
    \E p \in Procs :
        /\ op[p] \in InsertOps
        /\ Len(res[p]) = 2
        /\ ~HasId(pre[p][job], rows[p][1].id)
        /\ rows[p][2].id = rows[p][1].id
        /\ Cardinality(Db[job]) = Cardinality(pre[p][job]) + 1

\* C10 as stated: an insert call with no rows returns Ok(empty) and leaves
\* the tables unchanged.
C10_Original ==
    \A p \in Procs :
        (op[p] \in InsertOps /\ rows[p] = <<>> /\ pc[p] = "idle") =>
            /\ ret[p] = "ok"
            /\ res[p] = <<>>
            /\ Db = pre[p]

\* C10: an insert call with no rows executes no statement and leaves the
\* tables unchanged; it can fail only at connect or prepare, and returns
\* Ok(empty) otherwise.
C10_EmptyBatch ==
    \A p \in Procs :
        (op[p] \in InsertOps /\ rows[p] = <<>>) =>
            /\ res[p] = <<>>
            /\ Db = pre[p]
            /\ pc[p] = "idle" => ret[p] \in {"ok", "err_connect", "err_prepare"}

\* An insert call with no rows returned Ok on a table that holds rows.
C10_Witness ==
    \E p \in Procs :
        /\ op[p] \in InsertOps
        /\ rows[p] = <<>>
        /\ pc[p] = "idle"
        /\ ret[p] = "ok"
        /\ res[p] = <<>>
        /\ Db[job] # {}

\* C11: a read that succeeded returned one record per row stored in its table,
\* no row left out or repeated, each record equal field by field to its row
\* (rows written by insert calls and rows that were there before alike), and
\* a read, failed or not, left the three tables as they were.
C11_ReadComplete ==
    \A p \in Procs :
        /\ (op[p] \in GetOps /\ (pc[p] # "idle" \/ ret[p] # "none")) =>
              Db = pre[p]
        /\ (op[p] = "get_contests" /\ ret[p] = "ok") =>
              /\ Len(got[p]) = Cardinality(contests)
              /\ Range(got[p]) = {RowToContest(r) : r \in contests}
              /\ \A r \in contests : \E i \in DOMAIN got[p] :
                    /\ got[p][i].id = r.id
                    /\ got[p][i].start_epoch_second = r.start_epoch_second
                    /\ got[p][i].duration_second = r.duration_second
                    /\ got[p][i].title = r.title
                    /\ got[p][i].rate_change = r.rate_change
        /\ (op[p] = "get_problems" /\ ret[p] = "ok") =>
              /\ Len(got[p]) = Cardinality(problems)
              /\ \A r \in problems : \E i \in DOMAIN got[p] :
                    /\ got[p][i].id = r.id
                    /\ got[p][i].contest_id = r.contest_id
                    /\ got[p][i].title = r.title

\* A read returned two records, one of a row that was stored before the run
\* and one of a row an insert call wrote.
C11_Witness ==
    \E p \in Procs :
        /\ op[p] \in GetOps
        /\ ret[p] = "ok"
        /\ Len(got[p]) = 2
        /\ Db[job] \cap (SeedContests \cup SeedProblems) # {}
        /\ Cardinality(Db[job]) = 2

\* C12: the statements an insert call has executed are those of a prefix of
\* its rows, in input order, one statement and one result per row and no row
\* twice; a call that returned the error of a row executed nothing after that
\* row, a call that returned Ok executed every row.
C12_RowOrder ==
    \A p \in Procs :
        (op[p] \in InsertOps /\ (pc[p] # "idle" \/ ret[p] # "none")) =>
            /\ Len(log[p]) <= Len(rows[p])
            /\ log[p] = SubSeq(rows[p], 1, Len(log[p]))
            /\ Len(res[p]) = Len(log[p])
            /\ ret[p] = "err_execute" => Len(log[p]) < Len(rows[p])
            /\ ret[p] = "ok" => log[p] = rows[p]
            /\ pc[p] = "connected" => log[p] = <<>>

\* A call with two different rows executed the first and failed at the
\* second.
C12_Witness ==
    \E p \in Procs :
        /\ op[p] \in InsertOps
        /\ ret[p] = "err_execute"
        /\ Len(rows[p]) = 2
        /\ rows[p][1] # rows[p][2]
        /\ log[p] = <<rows[p][1]>>

\* Both callers made the insert call o, both calls returned Ok, and both
\* slices carry a row with id i.
BothWrote(o, i) ==
    \A p \in Procs :
        /\ op[p] = o
        /\ ret[p] = "ok"
        /\ \E j \in DOMAIN rows[p] : rows[p][j].id = i

\* C13 as stated: after two interleaved calls that both carry id i, one row
\* is stored for i; a submission has the other columns of the statement
\* executed first and the user_id of the statement executed last, a contest
\* or problem is the row of the statement executed first.
C13_Original ==
    /\ \A i \in Ids(SubmissionRows) :
          BothWrote("insert_submissions", i) =>
              /\ Cardinality({r \in submissions : r.id = i}) = 1
              /\ \A r \in submissions :
                    r.id = i =>
                        /\ Immutable(r) = Immutable(ran.submissions[i].first)
                        /\ r.user_id = ran.submissions[i].last.user_id
    /\ \A i \in Ids(ContestRows) :
          BothWrote("insert_contests", i) =>
              {r \in contests : r.id = i} = {ran.contests[i].first}
    /\ \A i \in Ids(ProblemRows) :
          BothWrote("insert_problems", i) =>
              {r \in problems : r.id = i} = {ran.problems[i].first}

\* C13: after two interleaved calls that both carry id i, one row is stored
\* for i; a submission has the other columns of the row that was stored for
\* i before the calls, or else of the statement executed first, and the
\* user_id of the statement executed last; a contest or problem is the row
\* stored for i before the calls, or else that of the statement executed
\* first.
C13_Interleaved ==
    /\ \A i \in Ids(SubmissionRows) :
          BothWrote("insert_submissions", i) =>
              /\ Cardinality({r \in submissions : r.id = i}) = 1
              /\ \A r \in submissions :
                    r.id = i =>
                        /\ Immutable(r) = Immutable(first.submissions[i])
                        /\ r.user_id = ran.submissions[i].last.user_id
    /\ \A i \in Ids(ContestRows) :
          BothWrote("insert_contests", i) =>
              {r \in contests : r.id = i} = {first.contests[i]}
    /\ \A i \in Ids(ProblemRows) :
          BothWrote("insert_problems", i) =>
              {r \in problems : r.id = i} = {first.problems[i]}

\* Two insert_submissions calls that both began before id i was stored: the
\* second caller's statement for i ran first and the first caller's last, and
\* the stored row has the columns of the one and the user_id of the other.
C13_Witness ==
    \E i \in Ids(SubmissionRows) :
        /\ BothWrote("insert_submissions", i)
        /\ \A p \in Procs : ~HasId(pre[p].submissions, i)
        /\ Len(rows["w1"]) = 2
        /\ ran.submissions[i].first = rows["w2"][1]
        /\ ran.submissions[i].last \in Range(rows["w1"])
        /\ Immutable(ran.submissions[i].first) # Immutable(ran.submissions[i].last)
        /\ \E r \in submissions :
              /\ r.id = i
              /\ Immutable(r) = Immutable(rows["w2"][1])
              /\ r.user_id # rows["w2"][1].user_id

\* Row j of p's slice carried an id that was not stored when its statement
\* was executed.
WasNew(p, j) ==
    /\ ~HasId(pre[p][job], rows[p][j].id)
    /\ \A i \in 1..(j - 1) : rows[p][i].id # rows[p][j].id

\* C14: an insert call that returned Ok returned one count per row, in input
\* order: 1 for every row of insert_submissions, and for insert_contests and
\* insert_problems 1 for a row whose id was new and 0 for a row ignored.
C14_ResultShape ==
    \A p \in Procs :
        (op[p] \in InsertOps /\ ret[p] = "ok") =>
            /\ Len(res[p]) = Len(rows[p])
            /\ \A j \in DOMAIN rows[p] :
                  res[p][j] = IF op[p] = "insert_submissions" THEN 1
                              ELSE IF WasNew(p, j) THEN 1 ELSE 0

\* A call on contests or problems returned <<1, 0>>: its second row was
\* ignored.
C14_Witness ==
    \E p \in Procs :
        /\ op[p] \in {"insert_contests", "insert_problems"}
        /\ ret[p] = "ok"
        /\ res[p] = <<1, 0>>
        /\ rows[p][1] # rows[p][2]

\* C15: an insert call changes no table but its own, and the statement of
\* insert_problems or insert_submissions can be executed whether or not the
\* contest or problem its row names is stored.
C15_Isolation ==
    \A p \in Procs :
        /\ (op[p] = "insert_submissions" /\ (pc[p] # "idle" \/ ret[p] # "none")) =>
              /\ contests = pre[p].contests
              /\ problems = pre[p].problems
        /\ op[p] = "insert_contests" =>
              /\ submissions = pre[p].submissions
              /\ problems = pre[p].problems
        /\ op[p] = "insert_problems" =>
              /\ submissions = pre[p].submissions
              /\ contests = pre[p].contests
        /\ (pc[p] = "prepared" /\ HasNext(p) /\ op[p] = "insert_problems") =>
              ENABLED ExecuteProblem(p)
        /\ (pc[p] = "prepared" /\ HasNext(p) /\ op[p] = "insert_submissions") =>
              ENABLED ExecuteSubmission(p)

\* insert_problems returned Ok and stored a problem whose contest is not in
\* contests.
C15_Witness ==
    \E p \in Procs :
        /\ op[p] = "insert_problems"
        /\ ret[p] = "ok"
        /\ \E r \in problems :
              /\ r \in Range(rows[p])
              /\ r \notin pre[p].problems
              /\ ~HasId(contests, r.contest_id)

\* C16: no step of any call, in any interleaving of two callers, takes an id
\* out of a table, and the ids a read returned are stored ever after.
C16_Monotonic ==
    [][/\ Ids(submissions) \subseteq Ids(submissions')
       /\ Ids(contests) \subseteq Ids(contests')
       /\ Ids(problems) \subseteq Ids(problems')
       /\ \A p \in Procs :
             /\ (op[p] = "get_contests" /\ ret[p] = "ok") =>
                   Ids(Range(got[p])) \subseteq Ids(contests')
             /\ (op[p] = "get_problems" /\ ret[p] = "ok") =>
                   Ids(Range(got[p])) \subseteq Ids(problems')]_vars

\* One caller read a contest, the other then inserted a new one: the table
\* holds what was read and more.
C16_Witness ==
    /\ op["w1"] = "get_contests"
    /\ ret["w1"] = "ok"
    /\ Len(got["w1"]) = 1
    /\ op["w2"] = "insert_contests"
    /\ ret["w2"] = "ok"
    /\ res["w2"] = <<1>>
    /\ Ids(Range(got["w1"])) \subseteq Ids(contests)
    /\ Cardinality(contests) = 2

====
